---------------------------- MODULE Spec2Model ----------------------------
(***************************************************************************)
(* A model of the SciTools/.github operational scripts:                    *)
(*   - templates/_templating_scripting.py : notify_updates, prompt_share   *)
(*   - peloton/update_project.py          : PaginatedQuery,                *)
(*                                          PaginatedMutation, main        *)
(*   - peloton/populate.py                : run_mutation                   *)
(* GitHub (issues, pull-request reviews, the Peloton project board) is the *)
(* environment; its state is part of the model's state.                    *)
(***************************************************************************)
EXTENDS Integers, Sequences, FiniteSets, TLC

VARIABLES
    \* ---- templates/_templating_scripting.py and the GitHub state it acts on
    spring_cleaning,    \* the module flag SPRING_CLEANING
    head_commit,        \* number of the HEAD commit of the .github repo
    head_diff,          \* files changed between HEAD^ and HEAD, in git's order
    target_issues,      \* repo -> issues created on SciTools/<repo>, oldest first
    dotgithub_issues,   \* titles of the issues of SciTools/.github, newest first
    pr_reviews,         \* reviews posted on the pull request, oldest first
    commands,           \* the git / gh sub-commands run so far
    notify_runs,        \* number of notify-updates runs so far
    last,               \* what the last run of a templating command did
    \* ---- PaginatedQuery._run_query (peloton/update_project.py)
    q_pc,               \* "loop" while _run_query loops, "returned" afterwards
    all_items,          \* local all_items
    has_next_page,      \* local has_next_page
    end_cursor,         \* local end_cursor
    q_requests,         \* the `after` argument of every request sent, in order
    q_pages,            \* every page the server served, in order
    q_result,           \* the list _run_query returned
    \* ---- PaginatedMutation / run_mutation
    p_kind,             \* "PaginatedMutation" or "run_mutation"
    p_pc,               \* "pages", "done" or "raised"
    p_n,                \* len(self._inputs) / len(lines)
    p_page,             \* position in page_slices of the next sub-mutation
    p_sent,             \* the input indexes of every sub-mutation built, in order
    p_attempts,         \* outcome of each attempt of the current sub-mutation
    p_exception,        \* local exception of _run_sub_mutation
    p_raised,           \* the exception _run_sub_mutation raised to its caller
    p_requests,         \* number of requests sent
    p_applied,          \* per page: how often GitHub applied its sub-mutation
    \* ---- update_project.main and the GitHub state it acts on
    m_pc,               \* "idle", "loop", "exited" or "raised"
    update_loop_minutes,        \* --update_loop_minutes
    update_loop_finish_time,    \* local of main, in seconds
    updates_only,       \* local of main
    now,                \* the clock (datetime.now()), in seconds
    iterations,         \* the passes of the while loop of this run, in order
    gh,                 \* issue / discussion -> what the search returns for it
    today,              \* the date
    project,            \* the items of the Peloton project
    next_item_id,       \* the id GitHub gives the next project item
    it,                 \* what the last pass of the loop read and did
    changes,            \* number of changes made to GitHub by its users
    \* ---- Config and check_dir, and the files they read
    templates_dir,      \* the regular files under templates/, as paths
    include_json,       \* _templating_include.json: key -> {repo: file_path}
    config,             \* CONFIG: not loaded, the AssertionError, or .templates
    checked,            \* how the last run of check_dir ended
    found               \* the last call of CONFIG.find_template and its result

tvars == <<spring_cleaning, head_commit, head_diff, target_issues,
           dotgithub_issues, pr_reviews, commands, notify_runs, last>>

qvars == <<q_pc, all_items, has_next_page, end_cursor, q_requests, q_pages, q_result>>

pvars == <<p_kind, p_pc, p_n, p_page, p_sent, p_attempts, p_exception, p_raised,
           p_requests, p_applied>>

mvars == <<m_pc, update_loop_minutes, update_loop_finish_time, updates_only, now,
           iterations, gh, today, project, next_item_id, it, changes>>

cvars == <<templates_dir, include_json, config, checked, found>>

vars == <<tvars, qvars, pvars, mvars, cvars>>

---------------------------------------------------------------------------
(* Bounds of the model.                                                    *)

\* Most issues SciTools/.github holds in the model.
MaxIssues == 32
\* Most reviews posted on the pull request in the model.
MaxReviews == 2
\* Most runs of notify-updates in the model.
MaxNotifyRuns == 2
\* Most commits pushed to the .github repo in the model.
MaxCommits == 2
\* Most pages the server serves to one query in the model.
MaxPages == 3
\* Most inputs of one mutation in the model.
MaxInputs == 41
\* Largest --update_loop_minutes in the model.
MaxLoopMinutes == 3
\* Last date of the model's calendar (the first is 1).
MaxDay == 2
\* Most comments on one issue or discussion in the model.
MaxComments == 1
\* Most project items GitHub creates in the model.
MaxItemId == 3
\* Most changes GitHub's users make in the model.
MaxChanges == 2

---------------------------------------------------------------------------
(* Helpers.                                                                *)

None == "None"

Min(a, b) == IF a < b THEN a ELSE b

Max(a, b) == IF a < b THEN b ELSE a

Range(s) == {s[i] : i \in DOMAIN s}

\* Number of elements of sequence s equal to x.
Count(s, x) == Cardinality({i \in DOMAIN s : s[i] = x})

---------------------------------------------------------------------------
(* templates/_templating_scripting.py                                      *)

BOTS == {"dependabot[bot]", "app/dependabot", "pre-commit-ci[bot]", "app/pre-commit-ci"}

\* Files of the .github repo that a commit can change.  The first two are
\* templates listed in _templating_include.json; the third lives under
\* templates/ but is no template; the last lives outside templates/.
T_ASV == "templates/benchmarks/asv_delegated.py"
T_PRECOMMIT == "templates/.pre-commit-config.yaml"
F_README == "templates/README.md"
F_PELOTON == "peloton/update_project.py"

\* file.is_relative_to(TEMPLATES_DIR)
is_relative_to_TEMPLATES_DIR(file) == file \in {T_ASV, T_PRECOMMIT, F_README}

\* CONFIG.templates: template -> list of TargetRepo(repo, path_in_repo).
CONFIG_templates ==
    (T_ASV :> << [repo |-> "iris", path_in_repo |-> "benchmarks/asv_delegated.py"],
                 [repo |-> "iris-esmf-regrid", path_in_repo |-> "benchmarks/asv_delegated.py"] >>)
    @@
    (T_PRECOMMIT :> << [repo |-> "iris", path_in_repo |-> ".pre-commit-config.yaml"] >>)

TargetRepoNames == {"iris", "iris-esmf-regrid"}

\* Target repos that have the labels "Bot" and "Type: Infrastructure".
LabelledRepos == {"iris"}

\* The diffs a HEAD commit of the .github repo can have (git lists the names
\* sorted by path).
Diffs == { <<T_ASV>>, <<T_PRECOMMIT, T_ASV>>, <<F_PELOTON>>,
           <<F_PELOTON, T_PRECOMMIT>>, <<F_README, T_ASV>> }

notify_issue_title(template) == <<"The template for", template, "has been updated">>

\* One `gh issue create` of notify_updates on SciTools/<repo>: with the two
\* labels, and again without them when gh answers "could not add label".
notify_gh_issue_create(iss, repo, title, commit) ==
    [iss EXCEPT ![repo] = Append(@, [title |-> title, commit |-> commit,
                                     labels |-> repo \in LabelledRepos])]

\* The inner loop of notify_updates: one issue per target repo of a template.
RECURSIVE notify_templatees(_, _, _, _)
notify_templatees(templatees, title, commit, iss) ==
    IF templatees = <<>> THEN iss
    ELSE notify_templatees(Tail(templatees), title, commit,
             notify_gh_issue_create(iss, Head(templatees).repo, title, commit))

\* The outer loop of notify_updates over changed_templates.  CONFIG.templates
\* is a dict: a changed file under templates/ that is no key raises KeyError,
\* which ends the run with the issues created so far.
RECURSIVE notify_changed_templates(_, _, _)
notify_changed_templates(changed_templates, commit, iss) ==
    IF changed_templates = <<>> THEN [issues |-> iss, error |-> "none"]
    ELSE LET template == Head(changed_templates) IN
         IF template \notin DOMAIN CONFIG_templates
         THEN [issues |-> iss, error |-> "KeyError"]
         ELSE notify_changed_templates(Tail(changed_templates), commit,
                  notify_templatees(CONFIG_templates[template],
                                    notify_issue_title(template), commit, iss))

\* The early return left out: the flag is never consulted.
SPRING_CLEANING_ignored == FALSE

\* `if SPRING_CLEANING:`, the test notify_updates and prompt_share start with.
SPRING_CLEANING == spring_cleaning

\* notify_updates(args), run on the .github repo at its HEAD commit.
notify_updates ==
    /\ notify_runs < MaxNotifyRuns
    /\ notify_runs' = notify_runs + 1
    /\ IF SPRING_CLEANING
       THEN /\ last' = [op |-> "notify_updates", did |-> "spring_cleaning"]
            /\ UNCHANGED <<target_issues, commands>>
       ELSE LET changed_templates == SelectSeq(head_diff, is_relative_to_TEMPLATES_DIR)
                res == notify_changed_templates(changed_templates, head_commit, target_issues)
            IN  /\ target_issues' = res.issues
                /\ commands' = commands \cup {"git rev-parse", "git diff"}
                                 \cup (IF res.issues # target_issues
                                       THEN {"gh issue create"} ELSE {})
                /\ last' = [op |-> "notify_updates", did |-> res.error]
    /\ UNCHANGED <<spring_cleaning, head_commit, head_diff, dotgithub_issues, pr_reviews>>
    /\ UNCHANGED <<qvars, pvars, mvars, cvars>>

\* A commit is pushed to the main branch of the .github repo.
Push ==
    /\ head_commit < MaxCommits
    /\ head_commit' = head_commit + 1
    /\ head_diff' \in Diffs
    /\ UNCHANGED <<spring_cleaning, target_issues, dotgithub_issues, pr_reviews,
                   commands, notify_runs, last>>
    /\ UNCHANGED <<qvars, pvars, mvars, cvars>>

---------------------------------------------------------------------------
(* prompt_share, run on a pull request of a target repo.                   *)

\* The pull request prompt-share is run on (args.pr_number, and its URL).
PR == [org |-> "SciTools", repo |-> "iris", number |-> 1]

\* url_to_short_ref(pr_url): "<org>/<repo>#<ref>".
pr_short_ref == <<PR.org, "/", PR.repo, "#", PR.number>>

\* issue_title = f"Share {pr_short_ref} changes via templating?"
issue_title == <<"Share", pr_short_ref, "changes via templating?">>

\* Any issue of SciTools/.github that prompt-share on PR did not create.
OTHER_TITLE == <<"other">>

\* Files of the target repo that the pull request can change.
P_ASV == "benchmarks/asv_delegated.py"
P_SETUP == "setup.py"
P_CONF == "docs/src/conf.py"
P_CUBE == "lib/iris/cube.py"

\* changed_path.parent
parent(path) ==
    CASE path = P_ASV -> "benchmarks"
      [] path = P_SETUP -> "."
      [] path = P_CONF -> "docs/src"
      [] OTHER -> "lib/iris"

PrChangedPaths == { <<>>, <<P_CUBE>>, <<P_ASV>>, <<P_SETUP, P_CUBE>>, <<P_CONF>> }

\* The sets of logins that author the commits of the pull request.
CommitAuthorSets == { {"alice"}, {"alice", "pre-commit-ci[bot]"},
                      {"dependabot[bot]"}, {"app/dependabot", "pre-commit-ci[bot]"} }

\* The login that opened the pull request.
PrAuthors == {"alice", "app/dependabot"}

\* Config.find_template: the (template, target) pairs of CONFIG.templates
\* whose target is (repo, path_in_repo).
find_template_matches(repo, path_in_repo) ==
    { m \in { <<t, i>> : t \in DOMAIN CONFIG_templates, i \in 1..2 } :
        /\ m[2] \in DOMAIN CONFIG_templates[m[1]]
        /\ CONFIG_templates[m[1]][m[2]].repo = repo
        /\ CONFIG_templates[m[1]][m[2]].path_in_repo = path_in_repo }

\* Config.find_template(repo, path_in_repo): the template, None, or the
\* AssertionError of `assert len(matches) <= 1`.
find_template(repo, path_in_repo) ==
    LET matches == find_template_matches(repo, path_in_repo) IN
    IF Cardinality(matches) > 1 THEN "AssertionError"
    ELSE IF matches = {} THEN None
    ELSE (CHOOSE m \in matches : TRUE)[1]

\* `changed_path in ignore_dict[pr_repo]`: changed_path is a pathlib.Path and
\* the entries loaded from _templating_exclude.json are str; a Path never
\* compares equal to a str, so the membership test is False for every path.
ignored(changed_path) == FALSE

\* The loop of prompt_share over changed_paths, appending to templated_list.
templated_list(changed_paths) ==
    SelectSeq(changed_paths,
              LAMBDA p : ~ignored(p) /\ find_template(PR.repo, p) # None)

\* ... and to candidates_list: not templated, and the parent directory is
\* the git root, benchmarks/ or docs/src/.
candidates_list(changed_paths) ==
    SelectSeq(changed_paths,
              LAMBDA p : /\ ~ignored(p)
                         /\ find_template(PR.repo, p) = None
                         /\ parent(p) \in {".", "benchmarks", "docs/src"})

\* The default of gh's `issue list --limit`: the listing returns at most this
\* many issues, the newest first.  create_issue passes no --limit.
GH_ISSUE_LIST_LIMIT == 30

\* gh_json("issue list --state all --repo SciTools/.github", "title")
existing_issues(issues) == SubSeq(issues, 1, Min(Len(issues), GH_ISSUE_LIST_LIMIT))

\* The test of create_issue: any(issue["title"] == title for issue in existing_issues)
title_exists(issues, title) == title \in Range(existing_issues(issues))

\* create_issue(title, body), the body of prompt_share after its listing.
create_issue(title, author, human_authors) ==
    IF title_exists(dotgithub_issues, title)
    THEN /\ commands' = commands \cup {"gh pr view", "gh issue list"}
         /\ last' = [op |-> "prompt_share", did |-> "exists"]
         /\ UNCHANGED <<dotgithub_issues, pr_reviews>>
    ELSE \E assignee \in (IF author \in BOTS THEN human_authors ELSE {author}) :
         /\ dotgithub_issues' = <<title>> \o dotgithub_issues
         /\ pr_reviews' = Append(pr_reviews, "request-changes")
         /\ commands' = commands \cup {"gh pr view", "gh issue list",
                                        "gh issue create", "gh pr review"}
         /\ last' = [op |-> "prompt_share", did |-> "created"]

\* The bots counted among the humans.
human_authors_with_bots(all_authors) == all_authors

\* human_authors = get_all_authors() - set(BOTS)
human_authors(all_authors) == all_authors \ BOTS

\* prompt_share(args) for a pull request opened by `author`, whose commits
\* are authored by `all_authors` and which changes `changed_paths`.
prompt_share(author, all_authors, changed_paths) ==
    /\ Len(dotgithub_issues) < MaxIssues
    /\ Len(pr_reviews) < MaxReviews
    /\ IF SPRING_CLEANING
       THEN /\ last' = [op |-> "prompt_share", did |-> "spring_cleaning"]
            /\ UNCHANGED <<dotgithub_issues, pr_reviews, commands>>
       ELSE IF human_authors(all_authors) = {}
            THEN /\ pr_reviews' = Append(pr_reviews, "comment")
                 /\ commands' = commands \cup {"gh pr view", "gh pr review"}
                 /\ last' = [op |-> "prompt_share", did |-> "bots"]
                 /\ UNCHANGED dotgithub_issues
            ELSE IF templated_list(changed_paths) # <<>> \/ candidates_list(changed_paths) # <<>>
            THEN create_issue(issue_title, author, human_authors(all_authors))
            ELSE /\ commands' = commands \cup {"gh pr view"}
                                   \cup (IF changed_paths # <<>> THEN {"git rev-parse"} ELSE {})
                 /\ last' = [op |-> "prompt_share", did |-> "nothing"]
                 /\ UNCHANGED <<dotgithub_issues, pr_reviews>>
    /\ UNCHANGED <<spring_cleaning, head_commit, head_diff, target_issues, notify_runs>>
    /\ UNCHANGED <<qvars, pvars, mvars, cvars>>

\* Anyone else opens an issue on SciTools/.github (a person, or prompt-share
\* run on another pull request).
OtherIssue ==
    /\ Len(dotgithub_issues) < MaxIssues
    /\ dotgithub_issues' = <<OTHER_TITLE>> \o dotgithub_issues
    /\ UNCHANGED <<spring_cleaning, head_commit, head_diff, target_issues,
                   pr_reviews, commands, notify_runs, last>>
    /\ UNCHANGED <<qvars, pvars, mvars, cvars>>

PromptShare ==
    \E author \in PrAuthors, all_authors \in CommitAuthorSets, changed_paths \in PrChangedPaths :
        prompt_share(author, all_authors, changed_paths)

---------------------------------------------------------------------------
(* peloton/update_project.py: PaginatedQuery._run_query                    *)

\* What one item list of a page can hold.
PageItemLists == { <<>>, <<"i1">>, <<"i2", "i3">> }

\* The cursors the server hands out.
Cursors == {"Y3Vyc29yOjE", "Y3Vyc29yOjI"}

\* The pages the server can serve: page.page_info and the page's items.
ServerPages ==
    [items : PageItemLists, has_next_page : BOOLEAN, end_cursor : Cursors \cup {None}]

\* The loop body with `end_cursor = page_info.end_cursor` left out.
run_query_locals_stale_cursor(locals, page) ==
    [all_items |-> locals.all_items \o page.items,
     has_next_page |-> page.has_next_page,
     end_cursor |-> locals.end_cursor]

\* The assignments of one pass of the while loop of _run_query, given the
\* page that _extract_page returned.
run_query_locals(locals, page) ==
    [all_items |-> locals.all_items \o page.items,
     has_next_page |-> page.has_next_page,
     end_cursor |-> page.end_cursor]

\* One pass of `while has_next_page:`: _build_query(after=end_cursor), the
\* request, and the update of the locals from the page received.
run_query_page(page) ==
    /\ q_pc = "loop"
    /\ has_next_page
    /\ Len(q_pages) < MaxPages
    /\ q_requests' = Append(q_requests, end_cursor)
    /\ q_pages' = Append(q_pages, page)
    /\ LET new == run_query_locals([all_items |-> all_items,
                                     has_next_page |-> has_next_page,
                                     end_cursor |-> end_cursor], page)
       IN  /\ all_items' = new.all_items
           /\ has_next_page' = new.has_next_page
           /\ end_cursor' = new.end_cursor
    /\ UNCHANGED <<q_pc, q_result>>
    /\ UNCHANGED <<tvars, pvars, mvars, cvars>>

\* The loop condition fails: `return all_items`.
run_query_return ==
    /\ q_pc = "loop"
    /\ ~has_next_page
    /\ q_pc' = "returned"
    /\ q_result' = all_items
    /\ UNCHANGED <<all_items, has_next_page, end_cursor, q_requests, q_pages>>
    /\ UNCHANGED <<tvars, pvars, mvars, cvars>>

RunQueryPage == \E page \in ServerPages : run_query_page(page)

---------------------------------------------------------------------------
(* peloton/update_project.py: PaginatedMutation; populate.py: run_mutation *)

\* PaginatedMutation._PAGINATION, and PAGINATION of populate.py.
PAGINATION == 20

\* `for attempts in range(5)`
MAX_ATTEMPTS == 5

\* range(0, n, step) as a sequence.
RECURSIVE range_from(_, _, _)
range_from(i, n, step) ==
    IF i >= n THEN <<>> ELSE <<i>> \o range_from(i + step, n, step)

\* self._indexes = list(range(len(self._inputs)))
indexes(n) == [k \in 1..n |-> k - 1]

\* Slices one field too long: slice(i, i + PAGINATION + 1).
page_slices_overlapping(n) ==
    LET starts == range_from(0, n, PAGINATION) IN
    [k \in DOMAIN starts |-> [start |-> starts[k], stop |-> starts[k] + PAGINATION + 1]]

\* page_slices = [slice(i, i + P) for i in range(0, len(self._inputs), P)]
page_slices(n) ==
    LET starts == range_from(0, n, PAGINATION) IN
    [k \in DOMAIN starts |-> [start |-> starts[k], stop |-> starts[k] + PAGINATION]]

\* list[slice(start, stop)]: Python clips a slice to the list.
sliced(list, slice) ==
    SubSeq(list, Min(slice.start, Len(list)) + 1, Min(slice.stop, Len(list)))

\* The exceptions run_operation can raise.
Exceptions == {"TimeoutError", "GraphQLError"}

\* `exception = exc` replaced by keeping the first exception caught.
caught_first(exception, exc) == IF exception = None THEN exc ELSE exception

\* `except Exception as exc: exception = exc`
caught(exception, exc) == exc

\* The sub-mutation of the current page, as _run_sub_mutation builds it.
current_sub_mutation == sliced(indexes(p_n), page_slices(p_n)[p_page])

\* One attempt of _run_sub_mutation whose run_operation returns a result:
\* `break`, the payloads are returned, __init__ goes on to the next page.
attempt_returns ==
    /\ p_kind = "PaginatedMutation"
    /\ p_pc = "pages"
    /\ p_page <= Len(page_slices(p_n))
    /\ Len(p_attempts) < MAX_ATTEMPTS
    /\ p_attempts' = <<>>
    /\ p_exception' = None
    /\ p_sent' = Append(p_sent, [fields |-> current_sub_mutation,
                                 attempts |-> Append(p_attempts, "ok")])
    /\ p_requests' = p_requests + 1
    /\ p_page' = p_page + 1
    /\ p_pc' = IF p_page = Len(page_slices(p_n)) THEN "done" ELSE "pages"
    /\ p_applied' = [p_applied EXCEPT ![p_page] = @ + 1]
    /\ UNCHANGED <<p_kind, p_n, p_raised>>
    /\ UNCHANGED <<tvars, qvars, mvars, cvars>>

\* One attempt whose run_operation raises exc: it is caught, and after the
\* last attempt `raise exception` ends the mutation.  GitHub has not applied
\* the sub-mutation.
attempt_raises(exc) ==
    /\ p_kind = "PaginatedMutation"
    /\ p_pc = "pages"
    /\ p_page <= Len(page_slices(p_n))
    /\ Len(p_attempts) < MAX_ATTEMPTS
    /\ p_attempts' = Append(p_attempts, exc)
    /\ p_exception' = caught(p_exception, exc)
    /\ p_requests' = p_requests + 1
    /\ IF Len(p_attempts) + 1 = MAX_ATTEMPTS
       THEN /\ p_pc' = "raised"
            /\ p_raised' = caught(p_exception, exc)
            /\ p_sent' = Append(p_sent, [fields |-> current_sub_mutation,
                                         attempts |-> Append(p_attempts, exc)])
       ELSE UNCHANGED <<p_pc, p_raised, p_sent>>
    /\ UNCHANGED <<p_kind, p_n, p_page, p_applied>>
    /\ UNCHANGED <<tvars, qvars, mvars, cvars>>

\* One attempt whose run_operation raises exc after GitHub has applied the
\* sub-mutation (the answer does not arrive in time): it is caught like any
\* other exception, and the same sub-mutation is sent again.
attempt_raises_after_applying(exc) ==
    /\ p_kind = "PaginatedMutation"
    /\ p_pc = "pages"
    /\ p_page <= Len(page_slices(p_n))
    /\ Len(p_attempts) < MAX_ATTEMPTS
    /\ p_attempts' = Append(p_attempts, exc)
    /\ p_exception' = caught(p_exception, exc)
    /\ p_requests' = p_requests + 1
    /\ IF Len(p_attempts) + 1 = MAX_ATTEMPTS
       THEN /\ p_pc' = "raised"
            /\ p_raised' = caught(p_exception, exc)
            /\ p_sent' = Append(p_sent, [fields |-> current_sub_mutation,
                                         attempts |-> Append(p_attempts, exc)])
       ELSE UNCHANGED <<p_pc, p_raised, p_sent>>
    /\ p_applied' = [p_applied EXCEPT ![p_page] = @ + 1]
    /\ UNCHANGED <<p_kind, p_n, p_page>>
    /\ UNCHANGED <<tvars, qvars, mvars, cvars>>

\* One pass of the loop of populate.run_mutation: one `gh api graphql` call
\* with the lines of the block (its exit status is not checked).
run_mutation_block ==
    /\ p_kind = "run_mutation"
    /\ p_pc = "pages"
    /\ p_page <= Len(page_slices(p_n))
    /\ p_sent' = Append(p_sent, [fields |-> current_sub_mutation, attempts |-> <<"ok">>])
    /\ p_requests' = p_requests + 1
    /\ p_page' = p_page + 1
    /\ p_pc' = IF p_page = Len(page_slices(p_n)) THEN "done" ELSE "pages"
    /\ p_applied' = [p_applied EXCEPT ![p_page] = @ + 1]
    /\ UNCHANGED <<p_kind, p_n, p_attempts, p_exception, p_raised>>
    /\ UNCHANGED <<tvars, qvars, mvars, cvars>>

AttemptRaises == \E exc \in Exceptions : attempt_raises(exc)

\* A timeout is the exception that can follow an applied sub-mutation.
AttemptRaisesAfterApplying == attempt_raises_after_applying("TimeoutError")

---------------------------------------------------------------------------
(* peloton/update_project.py: main, and the GitHub state it reads/writes   *)

SECONDS_BETWEEN_UPDATES == 60

\* What IssuesQuery returns (issues and pull requests) and what
\* DiscussionsQuery returns, when the search conditions select them.
Issues == {"I_kwDOissue"}

Discussions == {"D_kwDOdiscussion"}

Contents == Issues \cup Discussions

\* The row order of pd.concat([issues.data_frame, discussions.data_frame]).
ContentOrder == <<"I_kwDOissue", "D_kwDOdiscussion">>

\* A null of a data frame (None / NaN), and a value that is present.
Null == <<>>

Some(v) == <<v>>

\* A datetime string of GitHub on date d, such as "2024-05-01T12:00:00Z".
datetime(d) == [date |-> d, time |-> "T12:00:00Z"]

\* datetime_str_to_date_str: the first 10 characters of the datetime string.
datetime_str_to_date_str(datetimes) == datetimes.date

\* pandas' elementwise `!=`: unequal, or one of the two is null.
ne(a, b) == a = Null \/ b = Null \/ a # b

\* The elements of ContentOrder that are in set S, in order.
in_order(S) == SelectSeq(ContentOrder, LAMBDA c : c \in S)

\* IssuesQuery(query_string) and DiscussionsQuery(query_string), concatenated:
\* what GITHUB_QUERY_CONDITIONS selects, restricted in an incremental pass to
\* what was updated since last_update_loop_time.
issues_discussions(world, only_updates) ==
    {c \in Contents : world[c].in_query /\ (only_updates => world[c].touched)}

\* use_draft false in the rows of both queries.
use_draft_never(c) == FALSE

\* IssuesQuery.ColNames.use_draft, set by the _post_process of each query.
use_draft(c) == c \in Discussions

\* Orphans looked up among the issues only, not the discussions.
items_to_remove_issues_only(project_df, queried) ==
    {item \in project_df :
        item.linked_id = Null \/ item.linked_id[1] \notin (queried \cap Issues)}

\* items_to_remove = project.data_frame[no_linked_id | orphaned_linked_ids]
items_to_remove(project_df, queried) ==
    {item \in project_df :
        item.linked_id = Null \/ item.linked_id[1] \notin queried}

\* A row of `joined` for queried item c that found no project item.
NoItem == [id |-> Null]

\* joined: the right join of the project items with the queried items on
\* linked_id.  A queried item has one row per project item linked to it, or
\* one row with a null id_in_project.
joined(project_df, queried) ==
    {[c |-> c, item |-> item] : c \in queried, item \in project_df \cup {NoItem}}
    \cap
    {row \in [c : queried, item : project_df \cup {NoItem}] :
        IF row.item = NoItem
        THEN \A item \in project_df : item.linked_id # Some(row.c)
        ELSE row.item.linked_id = Some(row.c)}

\* not_in_project = joined[project.cols.id_in_project].isnull()
not_in_project(row) == row.item = NoItem

\* Only the dates of the final comments compared, not the comment counts.
have_new_comments_dates_only(row, world) ==
    /\ ~not_in_project(row)
    /\ ne(Some(datetime_str_to_date_str(world[row.c].final_comment_time)),
          row.item.final_comment_time)

\* have_new_comments, for one row of joined.
have_new_comments(row, world) ==
    /\ ~not_in_project(row)
    /\ \/ ne(Some(world[row.c].total_comments), row.item.num_comments)
       \/ ne(Some(datetime_str_to_date_str(world[row.c].final_comment_time)),
             row.item.final_comment_time)

\* updated_since_last, for one row of joined.
updated_since_last(row, world) ==
    IF not_in_project(row) THEN TRUE
    ELSE ne(Some(datetime_str_to_date_str(world[row.c].updated_at)),
            row.item.date_updated)

\* The full refresh without the comparison of updated_at with Date Updated.
items_to_update_without_dates(rows, world, only_updates) ==
    IF only_updates THEN rows
    ELSE {row \in rows : have_new_comments(row, world) \/ not_in_project(row)}

\* items_to_update: everything in an incremental pass, else the rows that
\* are new, have new comments or were updated on another date.
items_to_update(rows, world, only_updates) ==
    IF only_updates THEN rows
    ELSE {row \in rows : \/ updated_since_last(row, world)
                         \/ have_new_comments(row, world)
                         \/ not_in_project(row)}

\* RemoveItemsMutation: delete_project_v2_item for every item given.
RemoveItemsMutation(board, items) == board \ items

\* ClearPelotonDateMutation: clear_project_v2_item_field_value of the
\* next-peloton-date field of the project item of every row given.
ClearPelotonDateMutation(board, rows) ==
    {IF \E row \in rows : row.item.id = item.id
     THEN [item EXCEPT !.next_peloton_date = FALSE] ELSE item : item \in board}

\* A project item as GitHub creates it: no custom field has a value.
new_item(id, kind, c) ==
    [id |-> id, kind |-> kind, of |-> c, linked_id |-> Null, num_comments |-> Null,
     final_comment_time |-> Null, date_updated |-> Null, next_peloton_date |-> FALSE]

\* AddIssuesMutation over the issues `cs` (a sequence): add_project_v2_item_by_id
\* answers with the item of the issue, creating it when the project has none.
\* Gives the board, the next free id, and .result: the item id per issue.
RECURSIVE AddIssuesMutation(_, _, _, _)
AddIssuesMutation(board, next_id, cs, result) ==
    IF cs = <<>> THEN [board |-> board, next_id |-> next_id, result |-> result]
    ELSE LET c == Head(cs)
             have == {item \in board : item.kind = "issue" /\ item.of = c}
         IN  IF have # {}
             THEN AddIssuesMutation(board, next_id, Tail(cs),
                      result @@ (c :> (CHOOSE item \in have : TRUE).id))
             ELSE AddIssuesMutation(board \cup {new_item(next_id, "issue", c)},
                      next_id + 1, Tail(cs), result @@ (c :> next_id))

\* AddDraftsMutation over the discussions `cs`: add_project_v2_draft_issue
\* creates a draft item (title, and the discussion's URL as body) each time.
RECURSIVE AddDraftsMutation(_, _, _, _)
AddDraftsMutation(board, next_id, cs, result) ==
    IF cs = <<>> THEN [board |-> board, next_id |-> next_id, result |-> result]
    ELSE AddDraftsMutation(board \cup {new_item(next_id, "draft", Head(cs))},
             next_id + 1, Tail(cs), result @@ (Head(cs) :> next_id))

\* The inputs of UpdateItemsMutation for one row, with the link field left out.
update_fields_without_link(item, c, world) ==
    [item EXCEPT !.num_comments = Some(world[c].total_comments),
                 !.final_comment_time =
                     Some(datetime_str_to_date_str(world[c].final_comment_time)),
                 !.date_updated = Some(datetime_str_to_date_str(world[c].updated_at))]

\* UpdateItemsMutation._make_inputs for one row: the link field (_linked_id)
\* takes row.name, the id of the issue or discussion; then the fields of
\* project_field_map take the row's values, dates cut to the date.
update_fields(item, c, world) ==
    [item EXCEPT !.linked_id = Some(c),
                 !.num_comments = Some(world[c].total_comments),
                 !.final_comment_time =
                     Some(datetime_str_to_date_str(world[c].final_comment_time)),
                 !.date_updated = Some(datetime_str_to_date_str(world[c].updated_at))]

\* UpdateItemsMutation: `updates` holds the (item id, issue/discussion) pairs
\* of the rows of items_to_update.
UpdateItemsMutation(board, updates, world) ==
    {IF \E u \in updates : u.id = item.id
     THEN update_fields(item, (CHOOSE u \in updates : u.id = item.id).c, world)
     ELSE item : item \in board}

\* The mutations of one pass of the loop, in the order main runs them.
Stages == <<"remove", "clear", "add_issues", "add_drafts", "update">>

\* The removal run in every pass.
full_refresh_always(only_updates) == TRUE

\* if not updates_only: (the removal of the items that match no queried item)
full_refresh(only_updates) == ~only_updates

\* The loop condition with `<=` for `<`.
loop_condition_le(only_updates, clock, finish) == ~only_updates \/ clock <= finish

\* while not updates_only or datetime.now() < update_loop_finish_time:
loop_condition(only_updates, clock, finish) == ~only_updates \/ clock < finish

\* main, from the computation of update_loop_finish_time to the loop:
\* PelotonTeamQuery takes team_query_seconds.  The clock counts from the
\* moment update_loop_finish_time is computed.
main_start(minutes, team_query_seconds) ==
    /\ m_pc \in {"idle", "exited", "raised"}
    /\ m_pc' = "loop"
    /\ update_loop_minutes' = minutes
    /\ update_loop_finish_time' = 60 * minutes
    /\ updates_only' = FALSE
    /\ now' = team_query_seconds
    /\ iterations' = <<>>
    /\ gh' = [c \in Contents |-> [gh[c] EXCEPT !.touched = FALSE]]
    /\ UNCHANGED <<today, project, next_item_id, it, changes>>
    /\ UNCHANGED <<tvars, qvars, pvars, cvars>>

\* One pass of the while loop of main: the full refresh when updates_only is
\* false, an incremental update otherwise.  work_seconds is the time the
\* queries and mutations take; `fail` names the mutation whose sub-mutation
\* raises after its last attempt (None: no mutation raises), which ends main.
\* it.sent holds the mutations that sent a request: the ones reached that
\* had an input (a mutation without inputs has no page to send); it.changes
\* holds how many changes GitHub's users had made when a full refresh ran.
\* The mutation that raises does so in its first page: none of its inputs
\* is applied.  `retried`: an attempt of the AddDraftsMutation page raised
\* after GitHub had applied it, and the next attempt returned.
loop_pass(work_seconds, fail, retried) ==
    LET project_df == project
        queried == issues_discussions(gh, updates_only)
        removing == IF full_refresh(updates_only) THEN items_to_remove(project_df, queried) ELSE {}
        b1 == RemoveItemsMutation(project, removing)
        rows == joined(project_df, queried)
        clearing == {row \in rows : have_new_comments(row, gh)}
        b2 == ClearPelotonDateMutation(b1, clearing)
        issues_to_add ==
            in_order({row.c : row \in {r \in rows : not_in_project(r) /\ ~use_draft(r.c)}})
        add1 == AddIssuesMutation(b2, next_item_id, issues_to_add, <<>>)
        drafts_to_add ==
            in_order({row.c : row \in {r \in rows : not_in_project(r) /\ use_draft(r.c)}})
        \* An attempt of the AddDraftsMutation page that GitHub applied and
        \* that raised all the same: the drafts it made stay in the project.
        lost == IF retried
                THEN AddDraftsMutation(add1.board, add1.next_id, drafts_to_add, <<>>)
                ELSE add1
        add2 == AddDraftsMutation(lost.board, lost.next_id, drafts_to_add, add1.result)
        updating == items_to_update(rows, gh, updates_only)
        updates == {[id |-> IF not_in_project(row) THEN add2.result[row.c] ELSE row.item.id,
                     c |-> row.c] : row \in updating}
        b3 == UpdateItemsMutation(add2.board, updates, gh)
        inputs == [remove |-> removing # {}, clear |-> clearing # {},
                   add_issues |-> issues_to_add # <<>>, add_drafts |-> drafts_to_add # <<>>,
                   update |-> updates # {}]
        \* Position of the failing mutation in Stages (6: none fails).
        failed == IF fail = None THEN 6 ELSE CHOOSE k \in 1..5 : Stages[k] = fail
    IN
    /\ m_pc = "loop"
    /\ loop_condition(updates_only, now, update_loop_finish_time)
    /\ fail # None => inputs[fail]
    /\ retried => drafts_to_add # <<>> /\ failed > 4
    /\ add2.next_id <= MaxItemId + 1
    /\ project' = CASE failed = 1 -> project
                    [] failed = 2 -> b1
                    [] failed = 3 -> b2
                    [] failed = 4 -> add1.board
                    [] failed = 5 -> add2.board
                    [] OTHER -> b3
    /\ next_item_id' = CASE failed <= 3 -> next_item_id
                         [] failed = 4 -> add1.next_id
                         [] OTHER -> add2.next_id
    /\ it' = [kind |-> IF updates_only THEN "incremental" ELSE "full",
              error |-> fail,
              queried |-> queried,
              project_before |-> project_df,
              remove_called |-> full_refresh(updates_only),
              removing |-> removing,
              cleared |-> IF failed > 2 THEN {row.item.id : row \in clearing} ELSE {},
              added_issues |-> IF failed > 3 THEN Range(issues_to_add) ELSE {},
              added_drafts |-> IF failed > 4 THEN Range(drafts_to_add) ELSE {},
              updated |-> IF failed > 5 THEN {u.c : u \in updates} ELSE {},
              sent |-> {stage \in Range(Stages) :
                          /\ inputs[stage]
                          /\ (CHOOSE k \in 1..5 : Stages[k] = stage) <= failed},
              changes |-> IF full_refresh(updates_only) THEN changes ELSE 0]
    /\ iterations' = Append(iterations, [kind |-> IF updates_only THEN "incremental" ELSE "full",
                                         started |-> now,
                                         remove_called |-> full_refresh(updates_only)])
    /\ gh' = [c \in Contents |-> [gh[c] EXCEPT !.touched = FALSE]]
    /\ IF fail = None
       THEN /\ updates_only' = TRUE
            /\ now' = now + work_seconds + SECONDS_BETWEEN_UPDATES
            /\ UNCHANGED m_pc
       ELSE /\ m_pc' = "raised"
            /\ now' = now + work_seconds
            /\ UNCHANGED updates_only
    /\ UNCHANGED <<update_loop_minutes, update_loop_finish_time, today, changes>>
    /\ UNCHANGED <<tvars, qvars, pvars, cvars>>

\* The loop condition fails: main returns.
main_exit ==
    /\ m_pc = "loop"
    /\ ~loop_condition(updates_only, now, update_loop_finish_time)
    /\ m_pc' = "exited"
    /\ UNCHANGED <<update_loop_minutes, update_loop_finish_time, updates_only, now,
                   iterations, gh, today, project, next_item_id, it, changes>>
    /\ UNCHANGED <<tvars, qvars, pvars, cvars>>

\* Someone comments on issue / discussion c.
comment(c) ==
    /\ changes < MaxChanges
    /\ changes' = changes + 1
    /\ gh[c].total_comments < MaxComments
    /\ gh' = [gh EXCEPT ![c] = [@ EXCEPT !.total_comments = @ + 1,
                                         !.final_comment_time = datetime(today),
                                         !.updated_at = datetime(today),
                                         !.touched = (m_pc = "loop")]]
    /\ UNCHANGED <<m_pc, update_loop_minutes, update_loop_finish_time, updates_only, now,
                   iterations, today, project, next_item_id, it>>
    /\ UNCHANGED <<tvars, qvars, pvars, cvars>>

\* Someone edits issue / discussion c (a label, the title, ...).
edit(c) ==
    /\ changes < MaxChanges
    /\ changes' = changes + 1
    /\ gh[c].updated_at # datetime(today) \/ (m_pc = "loop" /\ ~gh[c].touched)
    /\ gh' = [gh EXCEPT ![c] = [@ EXCEPT !.updated_at = datetime(today),
                                         !.touched = (m_pc = "loop")]]
    /\ UNCHANGED <<m_pc, update_loop_minutes, update_loop_finish_time, updates_only, now,
                   iterations, today, project, next_item_id, it>>
    /\ UNCHANGED <<tvars, qvars, pvars, cvars>>

\* c starts or stops to match GITHUB_QUERY_CONDITIONS (it is opened or
\* reopened; or it was closed more than 28 days ago, or deleted).
appear_or_vanish(c) ==
    /\ changes < MaxChanges
    /\ changes' = changes + 1
    /\ gh' = [gh EXCEPT ![c] = [@ EXCEPT !.in_query = ~@,
                                         !.touched = (m_pc = "loop")]]
    /\ UNCHANGED <<m_pc, update_loop_minutes, update_loop_finish_time, updates_only, now,
                   iterations, today, project, next_item_id, it>>
    /\ UNCHANGED <<tvars, qvars, pvars, cvars>>

\* Midnight.
next_day ==
    /\ changes < MaxChanges
    /\ changes' = changes + 1
    /\ today < MaxDay
    /\ today' = today + 1
    /\ UNCHANGED <<m_pc, update_loop_minutes, update_loop_finish_time, updates_only, now,
                   iterations, gh, project, next_item_id, it>>
    /\ UNCHANGED <<tvars, qvars, pvars, cvars>>

\* The Peloton meeting sets the next-peloton-date of a project item.
set_next_peloton_date(item) ==
    /\ changes < MaxChanges
    /\ changes' = changes + 1
    /\ ~item.next_peloton_date
    /\ project' = (project \ {item}) \cup {[item EXCEPT !.next_peloton_date = TRUE]}
    /\ UNCHANGED <<m_pc, update_loop_minutes, update_loop_finish_time, updates_only, now,
                   iterations, gh, today, next_item_id, it>>
    /\ UNCHANGED <<tvars, qvars, pvars, cvars>>

\* Before the first loop pass nothing was read or done.
NoPass == [kind |-> None, error |-> None, queried |-> {}, project_before |-> {},
           remove_called |-> FALSE, removing |-> {}, cleared |-> {},
           added_issues |-> {}, added_drafts |-> {}, updated |-> {}, sent |-> {},
           changes |-> 0]

\* --update_loop_minutes of the runs.
LoopMinutes == {0, 2}

MainStart == \E minutes \in LoopMinutes : main_start(minutes, 0)

LoopPass == \E fail \in Range(Stages) \cup {None} : loop_pass(0, fail, FALSE)

\* A pass in which an applied attempt of the AddDraftsMutation page raised.
RetriedPass == \E fail \in {None, "update"} : loop_pass(0, fail, TRUE)

CompletedPass == \E retried \in BOOLEAN : loop_pass(0, None, retried)

Comment == \E c \in Contents : comment(c)

Edit == \E c \in Contents : edit(c)

AppearOrVanish == \E c \in Contents : appear_or_vanish(c)

SetNextPelotonDate == \E item \in project : set_next_peloton_date(item)

---------------------------------------------------------------------------
(* templates/_templating_scripting.py: Config and check_dir                *)

\* Files that templates/ always holds: this script (TEMPLATES_DIR is the
\* parent of __file__) and the JSON that Config.__init__ opens.
F_SCRIPT == "templates/_templating_scripting.py"
F_INCLUDE == "templates/_templating_include.json"

\* Keys that _templating_include.json can hold: four files of templates/,
\* a file of the repo outside templates/, and a directory of templates/.
K_SCRIPT == "_templating_scripting.py"
K_INCLUDE == "_templating_include.json"
K_ASV == "benchmarks/asv_delegated.py"
K_README == "README.md"
K_OUTSIDE == "../peloton/update_project.py"
K_DIR == "benchmarks"

JsonKeys == {K_SCRIPT, K_INCLUDE, K_ASV, K_README, K_OUTSIDE, K_DIR}

\* template = TEMPLATES_DIR / _template (pathlib keeps a `..` component).
TEMPLATES_DIR_join(key) ==
    CASE key = K_SCRIPT -> F_SCRIPT
      [] key = K_INCLUDE -> F_INCLUDE
      [] key = K_ASV -> T_ASV
      [] key = K_README -> F_README
      [] key = K_OUTSIDE -> "templates/../peloton/update_project.py"
      [] OTHER -> "templates/benchmarks"

\* The regular files templates/ can hold.
TemplatesDirFiles == {F_SCRIPT, F_INCLUDE, T_ASV, F_README}

\* template.is_file(): a regular file of templates/, or the file of the
\* repo that K_OUTSIDE names.
is_file(path, files) == path \in files \cup {TEMPLATES_DIR_join(K_OUTSIDE)}

\* The values of _templating_include.json: {repo: file_path}, as the list
\* of TargetRepo that Config.__init__ makes of it.
TargetRepoLists ==
    { <<>>,
      << [repo |-> "iris", path_in_repo |-> P_ASV] >>,
      << [repo |-> "iris", path_in_repo |-> P_ASV],
         [repo |-> "iris-esmf-regrid", path_in_repo |-> P_ASV] >> }

\* Config.__init__: the AssertionError of `assert template.is_file()`, or
\* self.templates.
Config_init(json, files) ==
    IF \E key \in DOMAIN json : ~is_file(TEMPLATES_DIR_join(key), files)
    THEN [status |-> "AssertionError"]
    ELSE [status |-> "loaded",
          templates |-> [template \in {TEMPLATES_DIR_join(key) : key \in DOMAIN json} |->
                            json[CHOOSE key \in DOMAIN json : TEMPLATES_DIR_join(key) = template]]]

\* Config.find_template: flattened, then matches.
Config_find_template_matches(templates, repo, path_in_repo) ==
    { m \in UNION {{<<template, k>> : k \in DOMAIN templates[template]} :
                       template \in DOMAIN templates} :
        /\ templates[m[1]][m[2]].repo = repo
        /\ templates[m[1]][m[2]].path_in_repo = path_in_repo }

\* The assertion left out: any of the matches is returned.
Config_find_template_unasserted(templates, repo, path_in_repo) ==
    LET matches == Config_find_template_matches(templates, repo, path_in_repo) IN
    IF matches = {} THEN None
    ELSE (CHOOSE m \in matches : TRUE)[1]

\* Config.find_template: `assert len(matches) <= 1`, then
\* `return matches[0] if matches else None`.
Config_find_template(templates, repo, path_in_repo) ==
    LET matches == Config_find_template_matches(templates, repo, path_in_repo) IN
    IF Cardinality(matches) > 1 THEN "AssertionError"
    ELSE IF matches = {} THEN None
    ELSE (CHOOSE m \in matches : TRUE)[1]

\* Only the files directly in templates/ (glob for rglob).
glob_files(files) == files \ {T_ASV}

\* The paths of TEMPLATES_DIR.rglob("*") that pass template.is_file().
rglob_files(files) == files

\* CONFIG = Config(), when the module is loaded.
load_config ==
    /\ config.status = "not loaded"
    /\ config' = Config_init(include_json, templates_dir)
    /\ UNCHANGED <<templates_dir, include_json, checked, found>>
    /\ UNCHANGED <<tvars, qvars, pvars, mvars>>

\* check_dir(args)
check_dir ==
    /\ config.status = "loaded"
    /\ checked = "not run"
    /\ checked' = IF \A template \in rglob_files(templates_dir) :
                         template \in DOMAIN config.templates
                  THEN "passed" ELSE "AssertionError"
    /\ UNCHANGED <<templates_dir, include_json, config, found>>
    /\ UNCHANGED <<tvars, qvars, pvars, mvars>>

\* CONFIG.find_template(repo, path_in_repo)
call_find_template(repo, path_in_repo) ==
    /\ config.status = "loaded"
    /\ found' = [repo |-> repo, path_in_repo |-> path_in_repo,
                 result |-> Config_find_template(config.templates, repo, path_in_repo)]
    /\ UNCHANGED <<templates_dir, include_json, config, checked>>
    /\ UNCHANGED <<tvars, qvars, pvars, mvars>>

CallFindTemplate ==
    \E repo \in TargetRepoNames, path_in_repo \in {P_ASV, P_CUBE} :
        call_find_template(repo, path_in_repo)

---------------------------------------------------------------------------
(* Specifications.  Each exercises one part of the scripts; the state of   *)
(* the other parts stays as it is before they run.                         *)

\* The templating commands as committed: SPRING_CLEANING = True (line 16).
SpringCleaningInit ==
    /\ spring_cleaning = TRUE
    /\ head_diff \in Diffs
    /\ head_commit = 1
    /\ target_issues = [r \in TargetRepoNames |-> <<>>]
    /\ dotgithub_issues = <<>>
    /\ pr_reviews = <<>>
    /\ commands = {}
    /\ notify_runs = 0
    /\ last = [op |-> "none", did |-> "none"]
    /\ q_pc = "loop"
    /\ all_items = <<>>
    /\ has_next_page = TRUE
    /\ end_cursor = None
    /\ q_requests = <<>>
    /\ q_pages = <<>>
    /\ q_result = <<>>
    /\ p_kind = "PaginatedMutation"
    /\ p_n = 0
    /\ p_pc = "done"
    /\ p_page = 1
    /\ p_sent = <<>>
    /\ p_attempts = <<>>
    /\ p_exception = None
    /\ p_raised = None
    /\ p_requests = 0
    /\ p_applied = [page \in DOMAIN page_slices(p_n) |-> 0]
    /\ m_pc = "idle"
    /\ update_loop_minutes = 0
    /\ update_loop_finish_time = 0
    /\ updates_only = FALSE
    /\ now = 0
    /\ iterations = <<>>
    /\ gh = [c \in Contents |-> [in_query |-> TRUE, total_comments |-> 0,
                                 final_comment_time |-> datetime(1),
                                 updated_at |-> datetime(1), touched |-> FALSE]]
    /\ today = 1
    /\ project = {}
    /\ next_item_id = 1
    /\ it = NoPass
    /\ changes = 0
    /\ templates_dir = {}
    /\ include_json = [key \in {} |-> <<>>]
    /\ config = [status |-> "not loaded"]
    /\ checked = "not run"
    /\ found = [result |-> "no call"]

TemplatingNext == notify_updates \/ Push \/ PromptShare \/ OtherIssue

SpecSpringCleaning == SpringCleaningInit /\ [][TemplatingNext]_vars

\* notify-updates runs on the pushes to the .github repo, with the flag
\* SPRING_CLEANING either way.
NotifyInit ==
    /\ spring_cleaning \in BOOLEAN
    /\ head_diff \in Diffs
    /\ head_commit = 1
    /\ target_issues = [r \in TargetRepoNames |-> <<>>]
    /\ dotgithub_issues = <<>>
    /\ pr_reviews = <<>>
    /\ commands = {}
    /\ notify_runs = 0
    /\ last = [op |-> "none", did |-> "none"]
    /\ q_pc = "loop"
    /\ all_items = <<>>
    /\ has_next_page = TRUE
    /\ end_cursor = None
    /\ q_requests = <<>>
    /\ q_pages = <<>>
    /\ q_result = <<>>
    /\ p_kind = "PaginatedMutation"
    /\ p_n = 0
    /\ p_pc = "done"
    /\ p_page = 1
    /\ p_sent = <<>>
    /\ p_attempts = <<>>
    /\ p_exception = None
    /\ p_raised = None
    /\ p_requests = 0
    /\ p_applied = [page \in DOMAIN page_slices(p_n) |-> 0]
    /\ m_pc = "idle"
    /\ update_loop_minutes = 0
    /\ update_loop_finish_time = 0
    /\ updates_only = FALSE
    /\ now = 0
    /\ iterations = <<>>
    /\ gh = [c \in Contents |-> [in_query |-> TRUE, total_comments |-> 0,
                                 final_comment_time |-> datetime(1),
                                 updated_at |-> datetime(1), touched |-> FALSE]]
    /\ today = 1
    /\ project = {}
    /\ next_item_id = 1
    /\ it = NoPass
    /\ changes = 0
    /\ templates_dir = {}
    /\ include_json = [key \in {} |-> <<>>]
    /\ config = [status |-> "not loaded"]
    /\ checked = "not run"
    /\ found = [result |-> "no call"]

NotifyNext == notify_updates \/ Push

SpecNotify == NotifyInit /\ [][NotifyNext]_vars

\* prompt-share runs on one pull request, while other issues are opened on
\* SciTools/.github.
PromptInit ==
    /\ spring_cleaning \in BOOLEAN
    /\ head_diff = <<>>
    /\ head_commit = 1
    /\ target_issues = [r \in TargetRepoNames |-> <<>>]
    /\ dotgithub_issues = <<>>
    /\ pr_reviews = <<>>
    /\ commands = {}
    /\ notify_runs = 0
    /\ last = [op |-> "none", did |-> "none"]
    /\ q_pc = "loop"
    /\ all_items = <<>>
    /\ has_next_page = TRUE
    /\ end_cursor = None
    /\ q_requests = <<>>
    /\ q_pages = <<>>
    /\ q_result = <<>>
    /\ p_kind = "PaginatedMutation"
    /\ p_n = 0
    /\ p_pc = "done"
    /\ p_page = 1
    /\ p_sent = <<>>
    /\ p_attempts = <<>>
    /\ p_exception = None
    /\ p_raised = None
    /\ p_requests = 0
    /\ p_applied = [page \in DOMAIN page_slices(p_n) |-> 0]
    /\ m_pc = "idle"
    /\ update_loop_minutes = 0
    /\ update_loop_finish_time = 0
    /\ updates_only = FALSE
    /\ now = 0
    /\ iterations = <<>>
    /\ gh = [c \in Contents |-> [in_query |-> TRUE, total_comments |-> 0,
                                 final_comment_time |-> datetime(1),
                                 updated_at |-> datetime(1), touched |-> FALSE]]
    /\ today = 1
    /\ project = {}
    /\ next_item_id = 1
    /\ it = NoPass
    /\ changes = 0
    /\ templates_dir = {}
    /\ include_json = [key \in {} |-> <<>>]
    /\ config = [status |-> "not loaded"]
    /\ checked = "not run"
    /\ found = [result |-> "no call"]

PromptNext == PromptShare \/ OtherIssue

SpecPrompt == PromptInit /\ [][PromptNext]_vars

\* One run of PaginatedQuery._run_query against a server: the locals of
\* _run_query before its loop.
QueryInit ==
    /\ spring_cleaning = TRUE
    /\ head_diff = <<>>
    /\ head_commit = 1
    /\ target_issues = [r \in TargetRepoNames |-> <<>>]
    /\ dotgithub_issues = <<>>
    /\ pr_reviews = <<>>
    /\ commands = {}
    /\ notify_runs = 0
    /\ last = [op |-> "none", did |-> "none"]
    /\ q_pc = "loop"
    /\ all_items = <<>>
    /\ has_next_page = TRUE
    /\ end_cursor = None
    /\ q_requests = <<>>
    /\ q_pages = <<>>
    /\ q_result = <<>>
    /\ p_kind = "PaginatedMutation"
    /\ p_n = 0
    /\ p_pc = "done"
    /\ p_page = 1
    /\ p_sent = <<>>
    /\ p_attempts = <<>>
    /\ p_exception = None
    /\ p_raised = None
    /\ p_requests = 0
    /\ p_applied = [page \in DOMAIN page_slices(p_n) |-> 0]
    /\ m_pc = "idle"
    /\ update_loop_minutes = 0
    /\ update_loop_finish_time = 0
    /\ updates_only = FALSE
    /\ now = 0
    /\ iterations = <<>>
    /\ gh = [c \in Contents |-> [in_query |-> TRUE, total_comments |-> 0,
                                 final_comment_time |-> datetime(1),
                                 updated_at |-> datetime(1), touched |-> FALSE]]
    /\ today = 1
    /\ project = {}
    /\ next_item_id = 1
    /\ it = NoPass
    /\ changes = 0
    /\ templates_dir = {}
    /\ include_json = [key \in {} |-> <<>>]
    /\ config = [status |-> "not loaded"]
    /\ checked = "not run"
    /\ found = [result |-> "no call"]

QueryNext == RunQueryPage \/ run_query_return

SpecQuery == QueryInit /\ [][QueryNext]_vars

\* One PaginatedMutation, or one populate.run_mutation, over p_n inputs,
\* before its first page; with no input the loop over page_slices has
\* nothing to do.
MutationInit ==
    /\ spring_cleaning = TRUE
    /\ head_diff = <<>>
    /\ head_commit = 1
    /\ target_issues = [r \in TargetRepoNames |-> <<>>]
    /\ dotgithub_issues = <<>>
    /\ pr_reviews = <<>>
    /\ commands = {}
    /\ notify_runs = 0
    /\ last = [op |-> "none", did |-> "none"]
    /\ q_pc = "loop"
    /\ all_items = <<>>
    /\ has_next_page = TRUE
    /\ end_cursor = None
    /\ q_requests = <<>>
    /\ q_pages = <<>>
    /\ q_result = <<>>
    /\ p_kind \in {"PaginatedMutation", "run_mutation"}
    /\ p_n \in 0..MaxInputs
    /\ p_pc = IF page_slices(p_n) = <<>> THEN "done" ELSE "pages"
    /\ p_page = 1
    /\ p_sent = <<>>
    /\ p_attempts = <<>>
    /\ p_exception = None
    /\ p_raised = None
    /\ p_requests = 0
    /\ p_applied = [page \in DOMAIN page_slices(p_n) |-> 0]
    /\ m_pc = "idle"
    /\ update_loop_minutes = 0
    /\ update_loop_finish_time = 0
    /\ updates_only = FALSE
    /\ now = 0
    /\ iterations = <<>>
    /\ gh = [c \in Contents |-> [in_query |-> TRUE, total_comments |-> 0,
                                 final_comment_time |-> datetime(1),
                                 updated_at |-> datetime(1), touched |-> FALSE]]
    /\ today = 1
    /\ project = {}
    /\ next_item_id = 1
    /\ it = NoPass
    /\ changes = 0
    /\ templates_dir = {}
    /\ include_json = [key \in {} |-> <<>>]
    /\ config = [status |-> "not loaded"]
    /\ checked = "not run"
    /\ found = [result |-> "no call"]

MutationNext == attempt_returns \/ AttemptRaises \/ run_mutation_block

SpecMutation == MutationInit /\ [][MutationNext]_vars

\* An AddDraftsMutation of one page or of two, whose attempts can raise
\* before or after GitHub has applied the sub-mutation.
RetryInit ==
    /\ spring_cleaning = TRUE
    /\ head_diff = <<>>
    /\ head_commit = 1
    /\ target_issues = [r \in TargetRepoNames |-> <<>>]
    /\ dotgithub_issues = <<>>
    /\ pr_reviews = <<>>
    /\ commands = {}
    /\ notify_runs = 0
    /\ last = [op |-> "none", did |-> "none"]
    /\ q_pc = "loop"
    /\ all_items = <<>>
    /\ has_next_page = TRUE
    /\ end_cursor = None
    /\ q_requests = <<>>
    /\ q_pages = <<>>
    /\ q_result = <<>>
    /\ p_kind = "PaginatedMutation"
    /\ p_n \in {1, PAGINATION + 1}
    /\ p_pc = IF page_slices(p_n) = <<>> THEN "done" ELSE "pages"
    /\ p_page = 1
    /\ p_sent = <<>>
    /\ p_attempts = <<>>
    /\ p_exception = None
    /\ p_raised = None
    /\ p_requests = 0
    /\ p_applied = [page \in DOMAIN page_slices(p_n) |-> 0]
    /\ m_pc = "idle"
    /\ update_loop_minutes = 0
    /\ update_loop_finish_time = 0
    /\ updates_only = FALSE
    /\ now = 0
    /\ iterations = <<>>
    /\ gh = [c \in Contents |-> [in_query |-> TRUE, total_comments |-> 0,
                                 final_comment_time |-> datetime(1),
                                 updated_at |-> datetime(1), touched |-> FALSE]]
    /\ today = 1
    /\ project = {}
    /\ next_item_id = 1
    /\ it = NoPass
    /\ changes = 0
    /\ templates_dir = {}
    /\ include_json = [key \in {} |-> <<>>]
    /\ config = [status |-> "not loaded"]
    /\ checked = "not run"
    /\ found = [result |-> "no call"]

RetryNext == attempt_returns \/ AttemptRaises \/ AttemptRaisesAfterApplying

SpecRetry == RetryInit /\ [][RetryNext]_vars

\* Runs of update_project.main against a GitHub whose issues and discussions
\* get comments, and start or stop to match the query, while it runs and
\* between its runs.
MainInit ==
    /\ spring_cleaning = TRUE
    /\ head_diff = <<>>
    /\ head_commit = 1
    /\ target_issues = [r \in TargetRepoNames |-> <<>>]
    /\ dotgithub_issues = <<>>
    /\ pr_reviews = <<>>
    /\ commands = {}
    /\ notify_runs = 0
    /\ last = [op |-> "none", did |-> "none"]
    /\ q_pc = "loop"
    /\ all_items = <<>>
    /\ has_next_page = TRUE
    /\ end_cursor = None
    /\ q_requests = <<>>
    /\ q_pages = <<>>
    /\ q_result = <<>>
    /\ p_kind = "PaginatedMutation"
    /\ p_n = 0
    /\ p_pc = "done"
    /\ p_page = 1
    /\ p_sent = <<>>
    /\ p_attempts = <<>>
    /\ p_exception = None
    /\ p_raised = None
    /\ p_requests = 0
    /\ p_applied = [page \in DOMAIN page_slices(p_n) |-> 0]
    /\ m_pc = "idle"
    /\ update_loop_minutes = 0
    /\ update_loop_finish_time = 0
    /\ updates_only = FALSE
    /\ now = 0
    /\ iterations = <<>>
    /\ gh = [c \in Contents |-> [in_query |-> TRUE, total_comments |-> 0,
                                 final_comment_time |-> datetime(1),
                                 updated_at |-> datetime(1), touched |-> FALSE]]
    /\ today = 1
    /\ project = {}
    /\ next_item_id = 1
    /\ it = NoPass
    /\ changes = 0
    /\ templates_dir = {}
    /\ include_json = [key \in {} |-> <<>>]
    /\ config = [status |-> "not loaded"]
    /\ checked = "not run"
    /\ found = [result |-> "no call"]

MainNext ==
    \/ MainStart
    \/ LoopPass
    \/ main_exit
    \/ Comment
    \/ AppearOrVanish

SpecMain == MainInit /\ [][MainNext]_vars

\* The same runs, with attempts of the AddDraftsMutation page that raise
\* after GitHub has applied them.
RefreshNext == MainNext \/ RetriedPass

SpecRefresh == MainInit /\ [][RefreshNext]_vars

\* Runs whose mutations all succeed, over a board and issues that the
\* Peloton and GitHub's users work on between and during the runs.
BoardNext ==
    \/ MainStart
    \/ CompletedPass
    \/ main_exit
    \/ Comment
    \/ AppearOrVanish
    \/ Edit
    \/ next_day
    \/ SetNextPelotonDate

SpecBoard == MainInit /\ [][BoardNext]_vars

\* One run of update_project.main, for every --update_loop_minutes and with
\* requests that take time; a mutation may fail for good.
LoopInit ==
    /\ spring_cleaning = TRUE
    /\ head_diff = <<>>
    /\ head_commit = 1
    /\ target_issues = [r \in TargetRepoNames |-> <<>>]
    /\ dotgithub_issues = <<>>
    /\ pr_reviews = <<>>
    /\ commands = {}
    /\ notify_runs = 0
    /\ last = [op |-> "none", did |-> "none"]
    /\ q_pc = "loop"
    /\ all_items = <<>>
    /\ has_next_page = TRUE
    /\ end_cursor = None
    /\ q_requests = <<>>
    /\ q_pages = <<>>
    /\ q_result = <<>>
    /\ p_kind = "PaginatedMutation"
    /\ p_n = 0
    /\ p_pc = "done"
    /\ p_page = 1
    /\ p_sent = <<>>
    /\ p_attempts = <<>>
    /\ p_exception = None
    /\ p_raised = None
    /\ p_requests = 0
    /\ p_applied = [page \in DOMAIN page_slices(p_n) |-> 0]
    /\ m_pc = "idle"
    /\ update_loop_minutes = 0
    /\ update_loop_finish_time = 0
    /\ updates_only = FALSE
    /\ now = 0
    /\ iterations = <<>>
    /\ gh = [c \in Contents |-> [in_query |-> TRUE, total_comments |-> 0,
                                 final_comment_time |-> datetime(1),
                                 updated_at |-> datetime(1), touched |-> FALSE]]
    /\ today = 1
    /\ project = {}
    /\ next_item_id = 1
    /\ it = NoPass
    /\ changes = 0
    /\ templates_dir = {}
    /\ include_json = [key \in {} |-> <<>>]
    /\ config = [status |-> "not loaded"]
    /\ checked = "not run"
    /\ found = [result |-> "no call"]

\* One run, from the command line.
LoopStart ==
    /\ m_pc = "idle"
    /\ \E minutes \in (-1)..MaxLoopMinutes, team_query_seconds \in {0, 45} :
           main_start(minutes, team_query_seconds)

TimedPass ==
    \E work_seconds \in {0, 30}, fail \in {None, "add_issues", "add_drafts", "update"} :
        loop_pass(work_seconds, fail, FALSE)

LoopNext == LoopStart \/ TimedPass \/ main_exit

\* Python runs the statement after the current one: a pass that can run
\* runs, and a false loop condition ends the loop.
SpecLoop == LoopInit /\ [][LoopNext]_vars /\ WF_vars(TimedPass) /\ WF_vars(main_exit)

\* The module is loaded, then check_dir or find_template is called, for
\* every content of templates/ and of _templating_include.json.
ConfigInit ==
    /\ spring_cleaning = TRUE
    /\ head_diff = <<>>
    /\ head_commit = 1
    /\ target_issues = [r \in TargetRepoNames |-> <<>>]
    /\ dotgithub_issues = <<>>
    /\ pr_reviews = <<>>
    /\ commands = {}
    /\ notify_runs = 0
    /\ last = [op |-> "none", did |-> "none"]
    /\ q_pc = "loop"
    /\ all_items = <<>>
    /\ has_next_page = TRUE
    /\ end_cursor = None
    /\ q_requests = <<>>
    /\ q_pages = <<>>
    /\ q_result = <<>>
    /\ p_kind = "PaginatedMutation"
    /\ p_n = 0
    /\ p_pc = "done"
    /\ p_page = 1
    /\ p_sent = <<>>
    /\ p_attempts = <<>>
    /\ p_exception = None
    /\ p_raised = None
    /\ p_requests = 0
    /\ p_applied = [page \in DOMAIN page_slices(p_n) |-> 0]
    /\ m_pc = "idle"
    /\ update_loop_minutes = 0
    /\ update_loop_finish_time = 0
    /\ updates_only = FALSE
    /\ now = 0
    /\ iterations = <<>>
    /\ gh = [c \in Contents |-> [in_query |-> TRUE, total_comments |-> 0,
                                 final_comment_time |-> datetime(1),
                                 updated_at |-> datetime(1), touched |-> FALSE]]
    /\ today = 1
    /\ project = {}
    /\ next_item_id = 1
    /\ it = NoPass
    /\ changes = 0
    /\ templates_dir \in {files \in SUBSET TemplatesDirFiles : {F_SCRIPT, F_INCLUDE} \subseteq files}
    /\ \E keys \in SUBSET JsonKeys : include_json \in [keys -> TargetRepoLists]
    /\ config = [status |-> "not loaded"]
    /\ checked = "not run"
    /\ found = [result |-> "no call"]

ConfigNext == load_config \/ check_dir \/ CallFindTemplate

SpecConfig == ConfigInit /\ [][ConfigNext]_vars

---------------------------------------------------------------------------
(* Claims about the templating commands.                                   *)

\* C1 (as claimed): whatever the number of prompt-share runs on the pull
\* request, SciTools/.github never holds more than one issue titled
\* "Share <org>/<repo>#<pr> changes via templating?".
C1_AtMostOneShareIssue == Count(dotgithub_issues, issue_title) <= 1

\* C2 (as claimed): no target repo ever holds two issues with the same title
\* created by notify-updates runs for the same HEAD commit.
C2_NoSecondIssueForSameHead ==
    \A repo \in TargetRepoNames :
        \A i, j \in DOMAIN target_issues[repo] :
            (/\ i < j
             /\ target_issues[repo][i].title = target_issues[repo][j].title
             /\ target_issues[repo][i].commit = target_issues[repo][j].commit) => FALSE

\* C3: while SPRING_CLEANING is true no git or gh command is run, so none of
\* the two commands creates an issue on a target repo or on SciTools/.github,
\* nor a comment or review on the pull request.
C3_SpringCleaningPostsNothing ==
    spring_cleaning =>
        /\ commands = {}
        /\ pr_reviews = <<>>
        /\ issue_title \notin Range(dotgithub_issues)
        /\ \A repo \in TargetRepoNames : target_issues[repo] = <<>>

\* C3's case: under spring cleaning, notify-updates has run on a commit that
\* changes a template and prompt-share has just run.
C3_Witness ==
    /\ spring_cleaning
    /\ notify_runs > 0
    /\ T_ASV \in Range(head_diff)
    /\ last = [op |-> "prompt_share", did |-> "spring_cleaning"]

---------------------------------------------------------------------------
(* Claims about PaginatedQuery and PaginatedMutation.                      *)

\* The items of a list of pages, concatenated in page order.
RECURSIVE concat_items(_)
concat_items(pages) ==
    IF pages = <<>> THEN <<>> ELSE Head(pages).items \o concat_items(Tail(pages))

\* C7: _run_query sends one request per page served; the first request has
\* after=None and every later one the end_cursor of the page just received;
\* no request follows a page whose has_next_page is false; and when it
\* returns, at least one request was made, the last page served has
\* has_next_page false and the result is the concatenation, in page order,
\* of the items of every page served.
C7_RunQueryReturnsAllPages ==
    /\ Len(q_requests) = Len(q_pages)
    /\ \A i \in DOMAIN q_requests :
           q_requests[i] = IF i = 1 THEN None ELSE q_pages[i - 1].end_cursor
    /\ \A i \in DOMAIN q_pages : i < Len(q_pages) => q_pages[i].has_next_page
    /\ q_pc = "returned" =>
           /\ Len(q_requests) >= 1
           /\ ~q_pages[Len(q_pages)].has_next_page
           /\ q_result = concat_items(q_pages)

\* C7's case: _run_query has returned after three pages, the first two with
\* items and distinct cursors.
C7_Witness ==
    /\ q_pc = "returned"
    /\ Len(q_pages) = 3
    /\ q_pages[1].items # <<>>
    /\ q_pages[2].items # <<>>
    /\ q_pages[1].end_cursor # q_pages[2].end_cursor
    /\ q_pages[1].end_cursor # None

\* The input indexes of a list of sub-mutations, concatenated in order.
RECURSIVE concat_fields(_)
concat_fields(sent) ==
    IF sent = <<>> THEN <<>> ELSE Head(sent).fields \o concat_fields(Tail(sent))

\* C8: every sub-mutation holds at most 20 fields; the sub-mutations sent so
\* far hold, in order, the first input indexes 0, 1, 2, ... each once; a
\* finished mutation over n inputs has sent ceil(n/20) sub-mutations that
\* hold exactly the indexes 0..n-1; and with n = 0 no request is sent.
C8_PagesPartitionInputs ==
    LET all_sent == concat_fields(p_sent) IN
    /\ \A k \in DOMAIN p_sent : Len(p_sent[k].fields) \in 1..20
    /\ Len(all_sent) <= p_n
    /\ all_sent = [k \in 1..Len(all_sent) |-> k - 1]
    /\ p_pc = "done" =>
           /\ Len(p_sent) = (p_n + 19) \div 20
           /\ Len(all_sent) = p_n
    /\ p_n = 0 => p_requests = 0

\* C8's case: a PaginatedMutation over 41 inputs has finished its three
\* sub-mutations, the second of them after a retry.
C8_Witness ==
    /\ p_kind = "PaginatedMutation"
    /\ p_pc = "done"
    /\ p_n = 41
    /\ Len(p_sent) = 3
    /\ Len(p_sent[2].attempts) = 2

\* C9: a sub-mutation is sent at most 5 times; every attempt but the last
\* raised (so it stops at the first attempt that raises nothing, and retries
\* only after an attempt that raised); and when the last attempt raised too,
\* it was the fifth, and _run_sub_mutation raises that attempt's exception.
C9_AtMostFiveAttempts ==
    /\ Len(p_attempts) <= 5
    /\ \A i \in DOMAIN p_attempts : p_attempts[i] \in Exceptions
    /\ \A k \in DOMAIN p_sent :
           LET a == p_sent[k].attempts IN
           /\ Len(a) \in 1..5
           /\ \A i \in 1..(Len(a) - 1) : a[i] \in Exceptions
           /\ a[Len(a)] \in Exceptions =>
                  /\ Len(a) = 5
                  /\ k = Len(p_sent)
                  /\ p_pc = "raised"
                  /\ p_raised = a[5]
    /\ p_pc = "raised" => p_sent[Len(p_sent)].attempts[5] \in Exceptions

\* C9's case: the second page of a mutation was sent five times, every
\* attempt raised, and the first and the last exception differ.
C9_Witness ==
    /\ p_pc = "raised"
    /\ Len(p_sent) = 2
    /\ p_sent[2].attempts[1] # p_sent[2].attempts[5]
    /\ p_sent[1].attempts = <<"TimeoutError", "ok">>

---------------------------------------------------------------------------
(* Claims about the passes of update_project.main.                         *)

\* The project item linked to issue / discussion c, if any.
linked_to(c) == {item \in project : item.linked_id = Some(c)}

\* C4: after a full refresh that completed without error, every issue and
\* discussion the query returned has a project item whose linked_id field
\* holds its id.
C4_FullRefreshLinksEveryQueried ==
    (it.kind = "full" /\ it.error = None) =>
        \A c \in it.queried : linked_to(c) # {}

\* A full refresh completed that added an issue and a draft.
C4_Witness ==
    /\ it.kind = "full" /\ it.error = None
    /\ it.added_issues # {} /\ it.added_drafts # {}

\* C5: the items a full refresh passes to RemoveItemsMutation are exactly
\* the project items whose linked_id is null or is not the id of a queried
\* item; an item linked to a queried item is not passed and stays in the
\* project.
C5_RemovesExactlyUnlinkedAndOrphans ==
    it.kind = "full" =>
        /\ \A item \in it.project_before :
               item \in it.removing <=>
                   \/ item.linked_id = Null
                   \/ \A c \in it.queried : item.linked_id # Some(c)
        /\ it.removing \subseteq it.project_before
        /\ \A item \in it.project_before :
               (\E c \in it.queried : item.linked_id = Some(c)) =>
                   \E kept \in project : kept.id = item.id

\* A full refresh completed that found an item without linked_id next to an
\* item linked to a queried issue or discussion.
C5_Witness ==
    /\ it.kind = "full" /\ it.error = None
    /\ \E item \in it.removing : item.linked_id = Null
    /\ \E item \in it.project_before : \E c \in it.queried : item.linked_id = Some(c)

\* C6: RemoveItemsMutation runs in the first pass of the loop of a run,
\* and in no later pass.
C6_RemovalOnlyInFirstPass ==
    \A k \in 1..Len(iterations) : iterations[k].remove_called <=> k = 1

\* A run made an incremental pass whose query returned something.
C6_Witness == Len(iterations) >= 2 /\ it.kind = "incremental" /\ it.queried # {}

\* A step that is one pass of the loop of main.
IsLoopPass == Len(iterations') = Len(iterations) + 1

\* Project item `item` is linked to a queried item whose comment count or
\* final-comment date is not the one the item's fields hold.
comments_differ(item, queried, world) ==
    /\ item.linked_id # Null
    /\ item.linked_id[1] \in queried
    /\ \/ item.num_comments # Some(world[item.linked_id[1]].total_comments)
       \/ item.final_comment_time
              # Some(datetime_str_to_date_str(world[item.linked_id[1]].final_comment_time))

\* C15: in a pass whose ClearPelotonDateMutation completes, the project
\* items cleared are exactly the items the project held before the pass
\* that are linked to a queried item whose comment count differs from
\* Num Comments or whose final-comment date differs from Final Comment Time:
\* their next-peloton-date is gone afterwards, that of every other item that
\* stays is kept, and no item added in this pass is cleared.
C15_ClearsExactlyItemsWithNewComments ==
    [][(IsLoopPass /\ it'.error \notin {"remove", "clear"}) =>
          /\ it'.cleared = {item.id : item \in {i \in project : comments_differ(i, it'.queried, gh)}}
          /\ \A item \in project' :
                 item.id \notin {i.id : i \in project} => item.id \notin it'.cleared
          /\ \A item \in project, after \in project' :
                 (after.id = item.id /\ item.next_peloton_date) =>
                     (after.next_peloton_date <=> ~comments_differ(item, it'.queried, gh))
      ]_vars

\* A pass cleared the next-peloton-date that an item had.
C15_Witness ==
    /\ it.error = None
    /\ \E item \in it.project_before, after \in project :
           /\ item.id \in it.cleared /\ after.id = item.id
           /\ item.next_peloton_date /\ ~after.next_peloton_date

\* The queried items that no item of the project is linked to.
without_project_item(queried, board) ==
    {c \in queried : \A item \in board : item.linked_id # Some(c)}

\* C16: in every pass, of the queried items with no project item the issues
\* and pull requests (use_draft false) are the ones given to
\* AddIssuesMutation and the discussions (use_draft true) the ones given to
\* AddDraftsMutation; nothing is given to both, an item that has a project
\* item is given to neither, and the items the pass creates are issue items
\* of such issues and draft items of such discussions.
C16_AddsPartitionedByUseDraft ==
    [][IsLoopPass =>
          /\ it'.added_issues \subseteq without_project_item(it'.queried, project) \cap Issues
          /\ it'.added_drafts \subseteq without_project_item(it'.queried, project) \cap Discussions
          /\ it'.added_issues \cap it'.added_drafts = {}
          /\ it'.error \notin {"remove", "clear", "add_issues"} =>
                 it'.added_issues = without_project_item(it'.queried, project) \cap Issues
          /\ it'.error \in {None, "update"} =>
                 it'.added_drafts = without_project_item(it'.queried, project) \cap Discussions
          /\ \A item \in project' :
                 item.id \notin {i.id : i \in project} =>
                     /\ item.of \in without_project_item(it'.queried, project)
                     /\ item.kind = "issue" <=> item.of \in it'.added_issues
                     /\ item.kind = "draft" <=> item.of \in it'.added_drafts
      ]_vars

\* A pass added a discussion as a draft while the queried issue had its
\* project item already.
C16_Witness ==
    /\ it.error = None
    /\ it.added_drafts # {}
    /\ \E item \in it.project_before :
           item.linked_id # Null /\ item.linked_id[1] \in it.queried \cap Issues

\* Project item `item` is linked to a queried item that was updated on
\* another date than its Date Updated field holds.
date_updated_differs(item, queried, world) ==
    /\ item.linked_id # Null
    /\ item.linked_id[1] \in queried
    /\ item.date_updated # Some(datetime_str_to_date_str(world[item.linked_id[1]].updated_at))

\* The queried items the full refresh is to update.
to_refresh(queried, board, world) ==
    without_project_item(queried, board)
    \cup {item.linked_id[1] :
             item \in {i \in board : \/ comments_differ(i, queried, world)
                                     \/ date_updated_differs(i, queried, world)}}

\* Project item `item` holds the values of issue / discussion c.
holds_values_of(item, c, world) ==
    /\ item.linked_id = Some(c)
    /\ item.num_comments = Some(world[c].total_comments)
    /\ item.final_comment_time = Some(datetime_str_to_date_str(world[c].final_comment_time))
    /\ item.date_updated = Some(datetime_str_to_date_str(world[c].updated_at))

\* C17: in a pass that completes, the items whose project fields are updated
\* are, in the full refresh, exactly the queried items that were not in the
\* project, or have new comments, or whose updated_at date differs from Date
\* Updated, and in an incremental pass every item the query returned; the
\* project item of each then holds its values, and the fields of the other
\* items are left alone.  An incremental pass whose query returns no items
\* sends no mutation.
C17_UpdatesExactlyChangedOrAllReturned ==
    [][IsLoopPass =>
          /\ it'.error = None =>
                 /\ it'.updated = IF it'.kind = "full"
                                  THEN to_refresh(it'.queried, project, gh)
                                  ELSE it'.queried
                 /\ \A c \in it'.updated :
                        \E item \in project' : holds_values_of(item, c, gh)
                 /\ \A item \in project, after \in project' :
                        (after.id = item.id /\ \A c \in it'.updated : item.linked_id # Some(c)) =>
                            [after EXCEPT !.next_peloton_date = FALSE]
                                = [item EXCEPT !.next_peloton_date = FALSE]
          /\ (it'.kind = "incremental" /\ it'.queried = {}) =>
                 it'.sent = {} /\ project' = project
      ]_vars

\* A full refresh updated an item for its updated_at date alone, and left
\* another queried item as it was.
C17_Witness ==
    /\ it.kind = "full" /\ it.error = None
    /\ \E item \in it.project_before :
           /\ ~comments_differ(item, it.queried, gh)
           /\ date_updated_differs(item, it.queried, gh)
           /\ item.linked_id[1] \in it.updated
    /\ it.updated # it.queried

\* C18: a full refresh that follows a completed full refresh, with no change
\* by anyone else in between (so on the same day and with the same query
\* results), removes nothing, adds nothing, clears nothing and updates
\* nothing: it sends no mutation and leaves the project as it is.
C18_SecondFullRefreshSendsNothing ==
    [][(/\ IsLoopPass
        /\ it.kind = "full" /\ it.error = None /\ it.changes = changes
        /\ it'.kind = "full")
       => /\ it'.sent = {}
          /\ it'.removing = {} /\ it'.cleared = {}
          /\ it'.added_issues = {} /\ it'.added_drafts = {} /\ it'.updated = {}
          /\ it'.error = None
          /\ project' = project
      ]_vars

---------------------------------------------------------------------------
(* Claims about the loop of update_project.main.                           *)

\* What C10 says of every state of a run.
C10_Passes ==
    /\ \A k \in 1..Len(iterations) :
           IF k = 1 THEN iterations[k].kind = "full"
           ELSE /\ iterations[k].kind = "incremental"
                /\ iterations[k].started < 60 * update_loop_minutes
    /\ Len(iterations) <= Max(1, update_loop_minutes)
    /\ m_pc = "exited" => Len(iterations) >= 1
    /\ (m_pc = "exited" /\ update_loop_minutes = 0) => Len(iterations) = 1

\* C10: a run of main makes one full refresh, first; every later pass is
\* incremental and starts while the clock is before start +
\* update_loop_minutes; the run makes at most max(1, update_loop_minutes)
\* passes, exactly one when update_loop_minutes is 0, and ends.
C10_OneFullRefreshThenBoundedLoop ==
    /\ []C10_Passes
    /\ (m_pc = "loop") ~> (m_pc \in {"exited", "raised"})

\* A run with the largest update_loop_minutes made as many passes as that
\* and returned.
C10_Witness ==
    /\ m_pc = "exited"
    /\ update_loop_minutes = MaxLoopMinutes
    /\ Len(iterations) = MaxLoopMinutes

---------------------------------------------------------------------------
(* More claims about the templating commands.                              *)

\* The issues of SciTools/<repo> among iss that notify_updates created for
\* `template` at commit `commit`.
notified(iss, repo, template, commit) ==
    {i \in DOMAIN iss[repo] : /\ iss[repo][i].title = notify_issue_title(template)
                              /\ iss[repo][i].commit = commit}

\* C11 (as claimed): a run of notify_updates with SPRING_CLEANING off creates
\* one issue per (changed template, target repo) pair, whatever other files
\* under templates/ the diff of HEAD holds.
C11_EveryTargetRepoNotified ==
    [][(notify_runs' = notify_runs + 1 /\ ~spring_cleaning) =>
          \A template \in Range(head_diff) \cap DOMAIN CONFIG_templates :
              \A k \in DOMAIN CONFIG_templates[template] :
                  LET repo == CONFIG_templates[template][k].repo IN
                  Cardinality(notified(target_issues', repo, template, head_commit))
                      = Cardinality(notified(target_issues, repo, template, head_commit)) + 1
      ]_vars

\* C12: with SPRING_CLEANING off, a run of prompt_share on a pull request
\* all of whose commit authors are in BOTS posts one review of type comment,
\* creates no issue and posts no request-changes review, whatever files the
\* pull request changes.
C12_BotsOnlyGetOneComment ==
    [][(/\ ~spring_cleaning
        /\ \E author \in PrAuthors, all_authors \in {a \in CommitAuthorSets : a \subseteq BOTS},
              changed_paths \in PrChangedPaths :
               prompt_share(author, all_authors, changed_paths))
       => /\ pr_reviews' = Append(pr_reviews, "comment")
          /\ dotgithub_issues' = dotgithub_issues
      ]_vars

\* prompt_share ran on a pull request authored by bots only.
C12_Witness ==
    /\ last = [op |-> "prompt_share", did |-> "bots"]
    /\ pr_reviews # <<>> /\ pr_reviews[Len(pr_reviews)] = "comment"

\* A path that names a file inside templates/.
inside_templates(path) == path \in TemplatesDirFiles

\* What C13 says of check_dir and of Config.__init__ each: check_dir fails
\* exactly when a regular file under templates/ is no key of
\* CONFIG.templates, and Config.__init__ fails when a key of the JSON is not
\* an existing file.
C13_EachFailsWhenClaimed ==
    /\ checked # "not run" =>
           (checked = "AssertionError" <=>
                \E template \in templates_dir : template \notin DOMAIN config.templates)
    /\ config.status # "not loaded" =>
           (config.status = "AssertionError" <=>
                \E key \in DOMAIN include_json :
                    ~is_file(TEMPLATES_DIR_join(key), templates_dir))

\* C13 (as claimed): ... so when both pass, the set of files under templates/
\* equals the set of configured templates.
C13_PassMeansEqualSets ==
    /\ C13_EachFailsWhenClaimed
    /\ checked = "passed" => templates_dir = DOMAIN config.templates

\* C13 (amended): ... so when both pass, the files under templates/ are the
\* configured templates that lie inside templates/: every file under
\* templates/ is a configured template, and every configured template is an
\* existing file, inside templates/ or (a key such as ../x) outside it.
C13_PassMeansFilesAreTheTemplatesInside ==
    /\ C13_EachFailsWhenClaimed
    /\ checked = "passed" =>
           /\ templates_dir = {template \in DOMAIN config.templates : inside_templates(template)}
           /\ \A template \in DOMAIN config.templates : is_file(template, templates_dir)

\* check_dir passed on a templates/ that holds files at two depths.
C13_Witness ==
    /\ checked = "passed"
    /\ {F_SCRIPT, T_ASV} \subseteq templates_dir

\* The templates whose target list contains (repo, path_in_repo).
listed_under(templates, repo, path_in_repo) ==
    {template \in DOMAIN templates :
        \E k \in DOMAIN templates[template] :
            templates[template][k] = [repo |-> repo, path_in_repo |-> path_in_repo]}

\* C14: find_template(repo, path) returns the template whose target list
\* contains (repo, path), or None when no template lists the pair; its
\* assertion fails exactly when the pair is listed under two templates, so
\* it holds in every configuration that lists no pair twice, and no
\* arbitrary match is returned.
C14_FindTemplateUniqueOrFails ==
    found.result # "no call" =>
        LET listing == listed_under(config.templates, found.repo, found.path_in_repo) IN
        /\ Cardinality(listing) = 1 => found.result \in listing
        /\ listing = {} => found.result = None
        /\ Cardinality(listing) > 1 <=> found.result = "AssertionError"

\* find_template was called for a pair that two templates list.
C14_Witness ==
    /\ found.result = "AssertionError"
    /\ Cardinality(listed_under(config.templates, found.repo, found.path_in_repo)) = 2

---------------------------------------------------------------------------
(* Claims about the retries of a sub-mutation.                             *)

\* C19: when an AddDraftsMutation has returned, GitHub has applied the
\* sub-mutation of every page exactly once, however many attempts raised: an
\* add_project_v2_draft_issue applied n times leaves n draft items, so every
\* discussion has exactly one draft item in the project.
C19_RetryKeepsOneDraftPerDiscussion ==
    p_pc = "done" => \A page \in DOMAIN p_applied : p_applied[page] = 1

====
